---------------------------- MODULE Spec2Model ----------------------------
(***************************************************************************)
(* Model of filter_tiktok_data (tiktok_barber_stream.py): the script loads *)
(* a streamed dataset, keeps the records whose description contains a      *)
(* barber keyword, falls back to ten built-in sample rows when loading or  *)
(* streaming raises, and writes one parquet file.                          *)
(*                                                                         *)
(* Python strings are sequences of one-character strings, so that lower(), *)
(* substring search, '|'.join and the regular-expression alternation are   *)
(* computed and not assumed.  Python values are records                    *)
(* [type, chars, num]; a dict is a function from its keys to values.       *)
(***************************************************************************)
EXTENDS Integers, Sequences, FiniteSets, TLC

(***************************************************************************)
(* Bounds.  The loop of the script stops after 100000 records (line 66)    *)
(* and the summary looks at video_count > 100 (line 115).  The model keeps *)
(* both comparisons and their order (threshold < safety break) but scales  *)
(* the two numbers down so that sources longer than the safety break can   *)
(* be enumerated.                                                          *)
(***************************************************************************)
SafetyBreak == 3

StreamNoteMin == 1

\* Longest source sequence enumerated: one record past the safety break.
MaxSourceLen == SafetyBreak + 1

(***************************************************************************)
(* Python values.                                                          *)
(***************************************************************************)
PyStr(s) == [type |-> "str", chars |-> s, num |-> 0]

PyInt(n) == [type |-> "int", chars |-> <<>>, num |-> n]

NoneVal == [type |-> "NoneType", chars |-> <<>>, num |-> 0]

NaN == [type |-> "float", chars |-> <<"n","a","n">>, num |-> 0]

\* isinstance(v, str), line 55
IsInstanceStr(v) == v.type = "str"

\* A wrong default: a record without the key gets a keyword as its text.
DictGetKeywordDefault(record, key, default) ==
  IF key \in DOMAIN record THEN record[key]
  ELSE PyStr(<<"b","a","r","b","e","r">>)

\* dict.get(key, default), line 54
DictGet(record, key, default) ==
  IF key \in DOMAIN record THEN record[key] ELSE default

(***************************************************************************)
(* Strings.                                                                *)
(***************************************************************************)
UpperLetters ==
  <<"A","B","C","D","E","F","G","H","I","J","K","L","M",
    "N","O","P","Q","R","S","T","U","V","W","X","Y","Z">>

LowerLetters ==
  <<"a","b","c","d","e","f","g","h","i","j","k","l","m",
    "n","o","p","q","r","s","t","u","v","w","x","y","z">>

\* str.lower() on one character: only cased letters change.
LowerChar(c) ==
  IF \E i \in 1..26 : UpperLetters[i] = c
  THEN LowerLetters[CHOOSE i \in 1..26 : UpperLetters[i] = c]
  ELSE c

\* lower() forgotten: the text is compared as written.
LowerForgotten(s) == s

\* str.lower(), line 55
Lower(s) == [i \in 1..Len(s) |-> LowerChar(s[i])]

\* Python's `sub in s` on strings: sub occurs at some offset of s.
StrIn(sub, s) ==
  \E off \in 0..(Len(s) - Len(sub)) :
     \A j \in 1..Len(sub) : s[off + j] = sub[j]

\* The keyword list with 'fade' left out.
keywordsWithoutFade ==
  << <<"b","a","r","b","e","r">>,
     <<"h","a","i","r","c","u","t">>,
     <<"c","l","i","p","p","e","r","s">>,
     <<"s","h","a","v","e">> >>

\* keywords, line 36
keywords ==
  << <<"b","a","r","b","e","r">>,
     <<"h","a","i","r","c","u","t">>,
     <<"f","a","d","e">>,
     <<"c","l","i","p","p","e","r","s">>,
     <<"s","h","a","v","e">> >>

\* any(kw in description.lower() for kw in keywords), line 55
AnyKeywordIn(description) ==
  \E k \in 1..Len(keywords) : StrIn(keywords[k], Lower(description.chars))

\* The test without the isinstance guard: .lower() on a value that is not
\* a string raises AttributeError.
FilterOutcomeUnguarded(record) ==
  LET description == DictGet(record, "description", PyStr(<<>>))
  IN  IF ~IsInstanceStr(description) THEN "raise"
      ELSE IF AnyKeywordIn(description) THEN "match" ELSE "nomatch"

\* The test of lines 54-55 on one record.  The outcomes are "match",
\* "nomatch" and "raise"; with the isinstance guard first, no record makes
\* .lower() raise.
FilterOutcome(record) ==
  LET description == DictGet(record, "description", PyStr(<<>>))
  IN  IF IsInstanceStr(description) /\ AnyKeywordIn(description)
      THEN "match" ELSE "nomatch"

RECURSIVE JoinFrom(_, _, _)
JoinFrom(sep, parts, i) ==
  IF i > Len(parts) THEN <<>>
  ELSE IF i = Len(parts) THEN parts[i]
  ELSE parts[i] \o sep \o JoinFrom(sep, parts, i + 1)

\* '|'.join(keywords), lines 37 and 93
Join(sep, parts) == JoinFrom(sep, parts, 1)

\* The alternatives of a regular expression made of literals and '|':
\* the pattern is cut at every '|'.
RECURSIVE Alternatives(_)
Alternatives(pattern) ==
  IF \A i \in 1..Len(pattern) : pattern[i] # "|" THEN << pattern >>
  ELSE LET cut == CHOOSE i \in 1..Len(pattern) :
                     /\ pattern[i] = "|"
                     /\ \A j \in 1..(i - 1) : pattern[j] # "|"
       IN  << SubSeq(pattern, 1, cut - 1) >>
             \o Alternatives(SubSeq(pattern, cut + 1, Len(pattern)))

\* re.search(pattern, s, re.IGNORECASE) for such a pattern: some alternative
\* occurs in s, letters compared without case.
RegexSearchIgnoreCase(pattern, s) ==
  LET alts == Alternatives(pattern)
  IN  \E a \in 1..Len(alts) : StrIn(Lower(alts[a]), Lower(s))

\* Series.str.contains(pat, case=False, na=False) on one cell, line 93:
\* a cell that is not a string counts as no match (na=False).
StrContains(cell, pattern) ==
  IF cell.type = "str" THEN RegexSearchIgnoreCase(pattern, cell.chars) ELSE FALSE

(***************************************************************************)
(* Data frames: the set of columns, the index labels and the rows, each    *)
(* row a function from the columns to values.                              *)
(***************************************************************************)
EmptyFrame == [columns |-> {}, index |-> <<>>, rows |-> <<>>]

\* pd.DataFrame.from_records(list of dicts), line 73: the columns are the
\* union of the keys, a key a record lacks is NaN in its row, the index is
\* 0..n-1 and the rows keep the order of the list.
FromRecords(records) ==
  LET cols == UNION { DOMAIN records[i] : i \in 1..Len(records) }
  IN  [columns |-> cols,
       index   |-> [i \in 1..Len(records) |-> i - 1],
       rows    |-> [i \in 1..Len(records) |->
                      [c \in cols |-> IF c \in DOMAIN records[i]
                                       THEN records[i][c] ELSE NaN]]]

\* pd.DataFrame(dict of equally long column lists), line 92
FromColumns(d) ==
  LET n == Len(d[CHOOSE c \in DOMAIN d : TRUE])
  IN  [columns |-> DOMAIN d,
       index   |-> [i \in 1..n |-> i - 1],
       rows    |-> [i \in 1..n |-> [c \in DOMAIN d |-> d[c][i]]]]

RECURSIVE KeptFrom(_, _, _)
KeptFrom(df, pattern, i) ==
  IF i > Len(df.rows) THEN <<>>
  ELSE (IF StrContains(df.rows[i]["description"], pattern) THEN << i >> ELSE <<>>)
         \o KeptFrom(df, pattern, i + 1)

\* df[df['description'].str.contains(pattern, case=False, na=False)],
\* lines 93-94: the rows whose mask is True, with their index labels.
FilterByDescription(df, pattern) ==
  LET kept == KeptFrom(df, pattern, 1)
  IN  [columns |-> df.columns,
       index   |-> [i \in 1..Len(kept) |-> df.index[kept[i]]],
       rows    |-> [i \in 1..Len(kept) |-> df.rows[kept[i]]]]

\* DataFrame.to_parquet(path, index=False), line 104: the columns and the
\* rows are stored, the index is not.
ToParquet(df) == [columns |-> df.columns, rows |-> df.rows]

NoFile == [columns |-> {"<absent>"}, rows |-> <<>>]

(***************************************************************************)
(* The built-in sample data of the fallback, lines 80-91.                  *)
(***************************************************************************)
\* Fresh haircut by my local barber!
Desc1 ==
  <<"F","r","e","s","h"," ","h","a","i","r","c","u","t"," ","b","y"," ","m",
   "y"," ","l","o","c","a","l"," ","b","a","r","b","e","r","!">>

\* Best cooking recipe ever.
Desc2 ==
  <<"B","e","s","t"," ","c","o","o","k","i","n","g"," ","r","e","c","i","p",
   "e"," ","e","v","e","r",".">>

\* Check out my new dog groomer.
Desc3 ==
  <<"C","h","e","c","k"," ","o","u","t"," ","m","y"," ","n","e","w"," ","d",
   "o","g"," ","g","r","o","o","m","e","r",".">>

\* Need a summer cut? Find a good barber.
Desc4 ==
  <<"N","e","e","d"," ","a"," ","s","u","m","m","e","r"," ","c","u","t","?",
   " ","F","i","n","d"," ","a"," ","g","o","o","d"," ","b","a","r","b","e",
   "r",".">>

\* Coding tutorial for beginners.
Desc5 ==
  <<"C","o","d","i","n","g"," ","t","u","t","o","r","i","a","l"," ","f","o",
   "r"," ","b","e","g","i","n","n","e","r","s",".">>

\* Barber shop vibes and clean fades.
Desc6 ==
  <<"B","a","r","b","e","r"," ","s","h","o","p"," ","v","i","b","e","s"," ",
   "a","n","d"," ","c","l","e","a","n"," ","f","a","d","e","s",".">>

\* History documentary about kings.
Desc7 ==
  <<"H","i","s","t","o","r","y"," ","d","o","c","u","m","e","n","t","a","r",
   "y"," ","a","b","o","u","t"," ","k","i","n","g","s",".">>

\* Epic video game stream.
Desc8 ==
  <<"E","p","i","c"," ","v","i","d","e","o"," ","g","a","m","e"," ","s","t",
   "r","e","a","m",".">>

\* The best fade I???ve seen this year.
Desc9 ==
  <<"T","h","e"," ","b","e","s","t"," ","f","a","d","e"," ","I","U+00E2",
   "U+20AC","U+2122","v","e"," ","s","e","e","n"," ","t","h","i","s"," ",
   "y","e","a","r",".">>

\* Just bought a new car.
Desc10 ==
  <<"J","u","s","t"," ","b","o","u","g","h","t"," ","a"," ","n","e","w"," ",
   "c","a","r",".">>

data ==
  [ video_id |-> <<PyInt(1001), PyInt(1002), PyInt(1003), PyInt(1004), PyInt(1005), PyInt(1006), PyInt(1007), PyInt(1008), PyInt(1009), PyInt(1010)>>,
    description |-> << PyStr(Desc1), PyStr(Desc2), PyStr(Desc3), PyStr(Desc4), PyStr(Desc5), PyStr(Desc6), PyStr(Desc7), PyStr(Desc8), PyStr(Desc9), PyStr(Desc10) >>,
    views |-> <<PyInt(100000), PyInt(5000), PyInt(20000), PyInt(150000), PyInt(300), PyInt(250000), PyInt(1000), PyInt(50000), PyInt(300000), PyInt(8000)>>,
    likes |-> <<PyInt(12000), PyInt(500), PyInt(2500), PyInt(18000), PyInt(50), PyInt(30000), PyInt(100), PyInt(6000), PyInt(45000), PyInt(1000)>>,
    user_id |-> <<
       PyStr(<<"u","1">>), PyStr(<<"u","2">>),
       PyStr(<<"u","3">>), PyStr(<<"u","4">>),
       PyStr(<<"u","5">>), PyStr(<<"u","6">>),
       PyStr(<<"u","7">>), PyStr(<<"u","8">>),
       PyStr(<<"u","9">>), PyStr(<<"u","1","0">>) >>,
    upload_date |-> <<
       PyStr(<<"2","0","2","3","-","1","0","-","0","1">>), PyStr(<<"2","0","2",
   "3","-","1","0","-","0","1">>),
       PyStr(<<"2","0","2","3","-","1","0","-","0","2">>), PyStr(<<"2","0","2",
   "3","-","1","0","-","0","2">>),
       PyStr(<<"2","0","2","3","-","1","0","-","0","3">>), PyStr(<<"2","0","2",
   "3","-","1","0","-","0","3">>),
       PyStr(<<"2","0","2","3","-","1","0","-","0","4">>), PyStr(<<"2","0","2",
   "3","-","1","0","-","0","4">>),
       PyStr(<<"2","0","2","3","-","1","0","-","0","5">>), PyStr(<<"2","0","2",
   "3","-","1","0","-","0","5">>) >> ]

\* The table the except branch builds, lines 92-94.
FallbackFrame == FilterByDescription(FromColumns(data), Join(<<"|">>, keywords))


(***************************************************************************)
(* The records a source can yield.  RecFade matches only after lower();    *)
(* RecShave matches as written and carries one more column; RecCook is a   *)
(* string without keyword; RecNoDesc has no description key; RecNoneDesc   *)
(* has a description that is not a string.                                 *)
(***************************************************************************)
RecFade == [video_id |-> PyInt(1), description |-> PyStr(<<"F","a","d","e">>)]

RecCook == [video_id |-> PyInt(2), description |-> PyStr(<<"c","o","o","k">>)]

RecNoDesc == [video_id |-> PyInt(3)]

RecNoneDesc == [video_id |-> PyInt(4), description |-> NoneVal]

RecShave ==
  [video_id |-> PyInt(5), description |-> PyStr(<<"s","h","a","v","e">>),
   likes |-> PyInt(7)]

RecordKinds == {RecFade, RecCook, RecNoDesc, RecNoneDesc, RecShave}

Sources == UNION { [1..n -> RecordKinds] : n \in 0..MaxSourceLen }

\* insert(0, x) in place of append(x).
ListPrepend(list, x) == << x >> \o list

\* list.append(x), line 59
ListAppend(list, x) == Append(list, x)

\* A name looked up as if it were always assigned.
LocalAlwaysBound(name, names) == TRUE

\* Whether a local name has been assigned: the lookup of keywords on line 93
\* and 'video_count' in locals() on line 115.
LocalIsBound(name, names) == name \in names

\* The test of line 100 inverted.
PathPresent(exists) == exists

\* not os.path.exists(output_dir), line 100
PathMissing(exists) == ~exists

\* The safety break compared with > in place of >=.
SafetyBreakPassed(n) == n > SafetyBreak

\* video_count >= 100000, line 66
SafetyBreakHit(n) == n >= SafetyBreak

\* video_count % 100000 == 0, line 61
ProgressDue(n) == n % SafetyBreak = 0

Msg(m, a, b) == [msg |-> m, a |-> a, b |-> b]

(***************************************************************************)
(* State.                                                                  *)
(*   source, source_end, load_raises : the environment of the run: the     *)
(*       records the stream yields, whether it then ends ("stop") or       *)
(*       raises ("raise"), and whether load_dataset itself raises;         *)
(*   dir_exists, file, write_count : the output directory and file;        *)
(*   pc : the position in filter_tiktok_data;                              *)
(*   bound : the local names that have been assigned (locals());           *)
(*   cursor : how many records the iterator of ds_stream has handed out;   *)
(*   video_count, match_count, filtered_records, df_filtered : the locals; *)
(*   printed : the lines printed so far;                                   *)
(*   uncaught : the exception that ended the run, "" if none.              *)
(***************************************************************************)
VARIABLES source, source_end, load_raises, dir_exists, file, write_count,
          pc, bound, cursor, video_count, match_count, filtered_records,
          df_filtered, printed, uncaught

vars == <<source, source_end, load_raises, dir_exists, file, write_count,
          pc, bound, cursor, video_count, match_count, filtered_records,
          df_filtered, printed, uncaught>>

env == <<source, source_end, load_raises>>

Init ==
  /\ load_raises \in BOOLEAN
  /\ source \in (IF load_raises THEN {<<>>} ELSE Sources)
  /\ source_end \in (IF load_raises THEN {"raise"} ELSE {"stop", "raise"})
  /\ dir_exists \in BOOLEAN
  /\ file = NoFile
  /\ write_count = 0
  /\ pc = "start"
  /\ bound = {}
  /\ cursor = 0
  /\ video_count = 0
  /\ match_count = 0
  /\ filtered_records = <<>>
  /\ df_filtered = EmptyFrame
  /\ printed = <<>>
  /\ uncaught = ""

\* Lines 17-47: the banner, load_dataset, and the locals set up before the
\* loop.  When load_dataset raises, nothing after it on lines 33-47 runs.
LoadDataset ==
  /\ pc = "start"
  /\ IF load_raises
     THEN /\ pc' = "except"
          /\ printed' = printed \o << Msg("starting", 0, 0), Msg("attempting", 0, 0) >>
          /\ UNCHANGED <<bound, video_count, match_count, filtered_records>>
     ELSE /\ pc' = "loop"
          /\ bound' = bound \cup {"ds_stream", "keywords", "keyword_pattern",
                                  "filtered_records", "video_count", "match_count"}
          /\ filtered_records' = <<>>
          /\ video_count' = 0
          /\ match_count' = 0
          /\ printed' = printed \o << Msg("starting", 0, 0), Msg("attempting", 0, 0),
                                      Msg("row_by_row", 0, 0) >>
  /\ UNCHANGED <<env, dir_exists, file, write_count, cursor, df_filtered, uncaught>>

\* Lines 50-68: the stream yields its next record and the loop body runs.
NextRecord ==
  /\ pc = "loop"
  /\ cursor < Len(source)
  /\ LET record  == source[cursor + 1]
         outcome == FilterOutcome(record)
         vc      == video_count + 1
         mc      == IF outcome = "match" THEN match_count + 1 ELSE match_count
     IN  /\ cursor' = cursor + 1
         /\ video_count' = vc
         /\ IF outcome = "raise"
            THEN /\ pc' = "except"
                 /\ UNCHANGED <<match_count, filtered_records, printed>>
            ELSE /\ match_count' = mc
                 /\ filtered_records' =
                      IF outcome = "match" THEN ListAppend(filtered_records, record)
                      ELSE filtered_records
                 /\ printed' = printed
                      \o (IF ProgressDue(vc) THEN << Msg("progress", vc, mc) >> ELSE <<>>)
                      \o (IF SafetyBreakHit(vc) THEN << Msg("stopping", vc, 0) >> ELSE <<>>)
                 /\ pc' = IF SafetyBreakHit(vc) THEN "filtered" ELSE "loop"
  /\ UNCHANGED <<env, dir_exists, file, write_count, bound, df_filtered, uncaught>>

\* Line 50: the stream is exhausted and the for loop ends.
StreamExhausted ==
  /\ pc = "loop"
  /\ cursor = Len(source)
  /\ source_end = "stop"
  /\ pc' = "filtered"
  /\ UNCHANGED <<env, dir_exists, file, write_count, bound, cursor, video_count,
                 match_count, filtered_records, df_filtered, printed, uncaught>>

\* Line 50: the stream raises instead of yielding; control goes to line 75.
StreamRaises ==
  /\ pc = "loop"
  /\ cursor = Len(source)
  /\ source_end = "raise"
  /\ pc' = "except"
  /\ UNCHANGED <<env, dir_exists, file, write_count, bound, cursor, video_count,
                 match_count, filtered_records, df_filtered, printed, uncaught>>

\* Lines 70-73: the count line and the data frame of the matches.
FilteringComplete ==
  /\ pc = "filtered"
  /\ printed' = Append(printed, Msg("filtering_complete", video_count, match_count))
  /\ df_filtered' = FromRecords(filtered_records)
  /\ bound' = bound \cup {"df_filtered"}
  /\ pc' = "save"
  /\ UNCHANGED <<env, dir_exists, file, write_count, cursor, video_count,
                 match_count, filtered_records, uncaught>>

\* Lines 75-94: the handler prints, builds the sample frame and filters it
\* with '|'.join(keywords).  keywords is a local assigned on line 36: read
\* before that assignment it raises UnboundLocalError out of the handler.
ExceptHandler ==
  /\ pc = "except"
  /\ printed' = printed \o << Msg("error_occurred", 0, 0), Msg("reverting", 0, 0) >>
  /\ IF LocalIsBound("keywords", bound)
     THEN /\ df_filtered' = FallbackFrame
          /\ bound' = bound \cup {"e", "data", "df_filtered", "filter_mask"}
          /\ pc' = "save"
          /\ UNCHANGED uncaught
     ELSE /\ df_filtered' = FromColumns(data)
          /\ bound' = bound \cup {"e", "data", "df_filtered"}
          /\ pc' = "crashed"
          /\ uncaught' = "UnboundLocalError"
  /\ UNCHANGED <<env, dir_exists, file, write_count, cursor, video_count,
                 match_count, filtered_records>>

\* Lines 100-101: os.makedirs when the directory is absent.
EnsureOutputDir ==
  /\ pc = "save"
  /\ dir_exists' = (IF PathMissing(dir_exists) THEN TRUE ELSE dir_exists)
  /\ pc' = "write"
  /\ UNCHANGED <<env, file, write_count, bound, cursor, video_count, match_count,
                 filtered_records, df_filtered, printed, uncaught>>

\* Line 104: to_parquet writes the file; without the directory it raises.
WriteParquet ==
  /\ pc = "write"
  /\ IF dir_exists
     THEN /\ file' = ToParquet(df_filtered)
          /\ write_count' = write_count + 1
          /\ pc' = "summary"
          /\ UNCHANGED uncaught
     ELSE /\ pc' = "crashed"
          /\ uncaught' = "FileNotFoundError"
          /\ UNCHANGED <<file, write_count>>
  /\ UNCHANGED <<env, dir_exists, bound, cursor, video_count, match_count,
                 filtered_records, df_filtered, printed>>

\* 'video_count' in locals() and video_count > 100, line 115
StreamingOccurred(names, n) ==
  LocalIsBound("video_count", names) /\ n > StreamNoteMin

\* Lines 106-120: the run summary.
PrintSummary ==
  /\ pc = "summary"
  /\ printed' = printed \o
       << Msg("process_complete", 0, 0),
          Msg("file_location", 0, 0),
          Msg("rows_saved", Len(df_filtered.rows), 0),
          IF StreamingOccurred(bound, video_count)
          THEN Msg("note_streaming", 0, 0)
          ELSE Msg("note_fallback", 0, 0) >>
  /\ pc' = "done"
  /\ UNCHANGED <<env, dir_exists, file, write_count, bound, cursor, video_count,
                 match_count, filtered_records, df_filtered, uncaught>>

Next ==
  \/ LoadDataset
  \/ NextRecord
  \/ StreamExhausted
  \/ StreamRaises
  \/ FilteringComplete
  \/ ExceptHandler
  \/ EnsureOutputDir
  \/ WriteParquet
  \/ PrintSummary

Spec == Init /\ [][Next]_vars

(***************************************************************************)
(* Vocabulary of the properties, stated without the operators of the       *)
(* filter above.                                                           *)
(***************************************************************************)
BarberKeywords ==
  { <<"b","a","r","b","e","r">>, <<"h","a","i","r","c","u","t">>,
    <<"f","a","d","e">>, <<"c","l","i","p","p","e","r","s">>,
    <<"s","h","a","v","e">> }

SameLetter(a, b) ==
  \/ a = b
  \/ \E i \in 1..26 : {a, b} = {UpperLetters[i], LowerLetters[i]}

ContainsNoCase(s, kw) ==
  \E off \in 0..(Len(s) - Len(kw)) :
     \A j \in 1..Len(kw) : SameLetter(s[off + j], kw[j])

HasStringText(R) ==
  /\ "description" \in DOMAIN R
  /\ R["description"].type = "str"

\* The keyword predicate on a record.
SatisfiesPredicate(R) ==
  /\ HasStringText(R)
  /\ \E kw \in BarberKeywords : ContainsNoCase(R["description"].chars, kw)

\* Row `row` of a table with columns `cols` holds exactly the record R.
RowHolds(row, cols, R) ==
  /\ DOMAIN R \subseteq cols
  /\ \A c \in cols : row[c] = (IF c \in DOMAIN R THEN R[c] ELSE NaN)

AppearsIn(R, table) ==
  \E i \in 1..Len(table.rows) : RowHolds(table.rows[i], table.columns, R)

Printed(m) == \E i \in 1..Len(printed) : printed[i].msg = m

PrintedLine(line) == \E i \in 1..Len(printed) : printed[i] = line

\* The except branch ran: the table comes from the built-in sample data.
FellBack == Printed("reverting")

Yielded == SubSeq(source, 1, cursor)

MatchesYielded == SelectSeq(Yielded, SatisfiesPredicate)

SampleRow(i) == [c \in DOMAIN data |-> data[c][i]]

MatchingSampleRows == << SampleRow(1), SampleRow(4), SampleRow(6), SampleRow(9) >>

Rank(p) ==
  CASE p = "start" -> 0
    [] p = "loop" -> 1
    [] p = "filtered" -> 2
    [] p = "except" -> 2
    [] p = "save" -> 3
    [] p = "write" -> 4
    [] p = "summary" -> 5
    [] p = "done" -> 6
    [] p = "crashed" -> 6

(***************************************************************************)
(* C1.  In a run that ends without the source or load_dataset raising,     *)
(* every record the source yielded is in the written table if and only if  *)
(* its description is a string that contains one of the keywords, letters  *)
(* compared without case.                                                  *)
(***************************************************************************)
C1_OutputIffKeyword ==
  (pc = "done" /\ ~FellBack) =>
     \A i \in 1..cursor :
        AppearsIn(source[i], file) <=> SatisfiesPredicate(source[i])

C1_Witness ==
  /\ pc = "done" /\ ~FellBack
  /\ cursor >= 2
  /\ \E i, j \in 1..cursor :
        /\ source[i] = RecFade /\ AppearsIn(source[i], file)
        /\ ~SatisfiesPredicate(source[j]) /\ ~AppearsIn(source[j], file)

(***************************************************************************)
(* C2 as stated: when no yielded record matches in a run that streams to   *)
(* its end, no output file is created and zero matches are reported.       *)
(***************************************************************************)
C2_NoFileWhenNoMatch ==
  (pc = "done" /\ ~FellBack /\ Len(MatchesYielded) = 0) =>
     /\ write_count = 0
     /\ file = NoFile
     /\ PrintedLine(Msg("filtering_complete", video_count, 0))

(***************************************************************************)
(* C2 amended: when no yielded record matches in a run that streams to its *)
(* end, the output file is still written, once, as a table without rows,   *)
(* and the run reports zero matches and zero saved rows.                   *)
(***************************************************************************)
C2_EmptyFileWhenNoMatch ==
  (pc = "done" /\ ~FellBack /\ Len(MatchesYielded) = 0) =>
     /\ write_count = 1
     /\ file # NoFile
     /\ Len(file.rows) = 0
     /\ PrintedLine(Msg("filtering_complete", video_count, 0))
     /\ PrintedLine(Msg("rows_saved", 0, 0))

C2_Witness ==
  /\ pc = "done" /\ ~FellBack
  /\ cursor >= 2
  /\ Len(MatchesYielded) = 0
  /\ write_count = 1
  /\ Len(file.rows) = 0

C4_FallbackOnLoadFailure ==
  load_raises =>
     /\ pc # "crashed"
     /\ (pc = "done" => write_count = 1 /\ file.rows = MatchingSampleRows)

(***************************************************************************)
(* C5.  In a run that reaches the summary, the fallback note is printed    *)
(* exactly when the table was built from the sample records, and the       *)
(* streaming note exactly when it was built from streamed records.         *)
(***************************************************************************)
C5_NoteTellsOrigin ==
  pc = "done" =>
     /\ Printed("note_fallback") <=> FellBack
     /\ Printed("note_streaming") <=> ~FellBack

(***************************************************************************)
(* C6.  Once the source has yielded a record without description, or with  *)
(* a description that is not a string, that record is not among the        *)
(* accumulated matches; as long as the source itself has not raised the    *)
(* run is neither in the except branch nor crashed; and the records        *)
(* yielded after it are counted and filtered: video_count counts every     *)
(* yielded record and the matches are as many as the yielded records that  *)
(* satisfy the predicate.                                                  *)
(***************************************************************************)
C6_BadRecordSkipped ==
  \A i \in 1..cursor :
     ~HasStringText(source[i]) =>
        /\ \A j \in 1..Len(filtered_records) : filtered_records[j] # source[i]
        /\ (cursor < Len(source) \/ source_end = "stop") =>
              (pc \notin {"except", "crashed"} /\ ~FellBack)
        /\ (pc \in {"loop", "filtered"} =>
              /\ video_count = cursor
              /\ match_count = Len(MatchesYielded)
              /\ Len(filtered_records) = Len(MatchesYielded))
        /\ (pc = "done" /\ ~FellBack => ~AppearsIn(source[i], file))

C6_Witness ==
  /\ pc = "done" /\ ~FellBack
  /\ cursor = 3
  /\ source[1] = RecNoDesc
  /\ source[2] = RecNoneDesc
  /\ source[3] = RecShave
  /\ AppearsIn(RecShave, file)
  /\ Len(file.rows) = 1

(***************************************************************************)
(* C7.  From the start of the loop on, the accumulated matches are exactly *)
(* the yielded records that satisfy the predicate, each once, in the order *)
(* the source yielded them; the data frame built from them on line 73 and  *)
(* the file written from it hold those records row by row in that order.   *)
(***************************************************************************)
C7_MatchesAreSubsequence ==
  /\ (pc \notin {"start"} /\ ~load_raises) => filtered_records = MatchesYielded
  /\ (pc \in {"save", "write", "summary", "done"} /\ ~FellBack) =>
        /\ Len(df_filtered.rows) = Len(MatchesYielded)
        /\ \A k \in 1..Len(MatchesYielded) :
              RowHolds(df_filtered.rows[k], df_filtered.columns, MatchesYielded[k])
  /\ (pc \in {"summary", "done"} /\ ~FellBack) =>
        /\ Len(file.rows) = Len(MatchesYielded)
        /\ \A k \in 1..Len(MatchesYielded) :
              RowHolds(file.rows[k], file.columns, MatchesYielded[k])

C7_Witness ==
  /\ pc = "done" /\ ~FellBack
  /\ source = << RecShave, RecCook, RecFade >>
  /\ Len(file.rows) = 2
  /\ RowHolds(file.rows[1], file.columns, RecShave)
  /\ RowHolds(file.rows[2], file.columns, RecFade)

(***************************************************************************)
(* C8.  The file is written at most once, by the step that follows the     *)
(* directory check and never while the loop runs; the positions of the run *)
(* only move forward (load, loop, end of loop or except, directory check,  *)
(* write, summary, end); and the directory exists when the write is about  *)
(* to happen.                                                              *)
(***************************************************************************)
C8_SingleWriteAtEnd ==
  [][ /\ Rank(pc') > Rank(pc) \/ (pc = "loop" /\ pc' = "loop")
      /\ (file' # file \/ write_count' # write_count) =>
            /\ pc = "write" /\ pc' = "summary"
            /\ write_count = 0 /\ write_count' = 1
            /\ dir_exists
      /\ (pc = "write" => dir_exists)
      /\ (dir_exists' # dir_exists => pc = "save" /\ ~dir_exists /\ dir_exists')
    ]_vars

C8_Witness ==
  /\ pc = "done"
  /\ write_count = 1
  /\ dir_exists
  /\ file # NoFile
  /\ cursor = SafetyBreak

(***************************************************************************)
(* C9.  When the stream raises after it has yielded at least one record,   *)
(* the written table is exactly the sample rows 1001, 1004, 1006 and 1009  *)
(* in that order, and no streamed record is in it.                         *)
(***************************************************************************)
C9_MidStreamFailureWritesSamples ==
  (pc = "done" /\ ~load_raises /\ FellBack /\ cursor >= 1) =>
     /\ file.rows = MatchingSampleRows
     /\ << file.rows[1]["video_id"].num, file.rows[2]["video_id"].num,
           file.rows[3]["video_id"].num, file.rows[4]["video_id"].num >>
          = << 1001, 1004, 1006, 1009 >>
     /\ file.columns = DOMAIN data
     /\ \A i \in 1..cursor : ~AppearsIn(source[i], file)

C9_Witness ==
  /\ pc = "done" /\ FellBack
  /\ cursor = 2
  /\ source = << RecFade, RecShave >>
  /\ match_count = 2
  /\ Len(file.rows) = 4

(***************************************************************************)
(* C10.  The loop hands out at most SafetyBreak records: the iterator is   *)
(* never advanced past that position, the loop is left as soon as          *)
(* video_count reaches it, and a table built from the stream holds only    *)
(* matches among the first SafetyBreak records of the source.              *)
(***************************************************************************)
C10_SafetyBreakBoundsLoop ==
  /\ cursor <= SafetyBreak
  /\ video_count <= SafetyBreak
  /\ (pc = "loop" => video_count < SafetyBreak)
  /\ (pc = "done" /\ ~FellBack) =>
        Len(file.rows) =
          Len(SelectSeq(SubSeq(source, 1,
                               IF Len(source) < SafetyBreak THEN Len(source)
                               ELSE SafetyBreak),
                        SatisfiesPredicate))

C10_Witness ==
  /\ pc = "done" /\ ~FellBack
  /\ Len(source) > SafetyBreak
  /\ SatisfiesPredicate(source[SafetyBreak + 1])
  /\ cursor = SafetyBreak
  /\ ~AppearsIn(source[SafetyBreak + 1], file)
====
